---- MODULE Spec2Model ----
(***************************************************************************)
(* V3QuoteProvider.getQuotesManyData (src/providers/v3/quote-provider.ts): *)
(* the batched, retried fetch of on-chain quotes through the multicall     *)
(* aggregator.  One call of the engine is modelled: the planner, the       *)
(* parallel per-batch tasks of an attempt, the join with the validator and *)
(* the retry controller, the retry policy and the result assembler.        *)
(***************************************************************************)
EXTENDS Integers, Sequences, FiniteSets, TLC

\* ------------------------------------------------------------------ bounds
MaxRoutes == 2          \* routes of a call: 0..MaxRoutes
MaxAmounts == 2         \* amounts of a call: 0..MaxAmounts
MaxRetries == 2         \* retryOptions.retries: 0..MaxRetries
MaxDrift == 1           \* a reply reports block pinned + 0..MaxDrift
MaxFailPrefix == 1      \* per-input failures are drawn among the first MaxFailPrefix inputs of a batch
PlanMaxRoutes == 7      \* planner specification: routes 1..PlanMaxRoutes
PlanMaxAmounts == 2     \* planner specification: amounts 1..PlanMaxAmounts
PlanMaxChunk == 5       \* planner specification: multicallChunk 1..PlanMaxChunk
BigRoutes == 3          \* default-configuration specification: number of routes
BigAmounts == 47        \* default-configuration specification: number of amounts
ChainHead == 10         \* the block provider.getBlockNumber() answers with
MaxSegments == 3        \* pieces of a provider error message: 1..MaxSegments

\* ------------------------------------------------------- program constants
DefaultRetries == 2
DefaultMulticallChunk == 150
DefaultGasLimitPerCall == 1000000
DefaultGasLimitOverride == 1300000
DefaultOverrideMulticallChunk == 110
OutOfGasGasLimit == 1000000
OutOfGasMulticallChunk == 140

Undefined == -1         \* an absent number (undefined)
Null == <<>>            \* null

VARIABLES
  \* constructor arguments and the address the constructor resolves
  chainId, multicall2Provider, quoterAddressOverride, quoterAddress,
  retryOptions, batchParams, successRateFailureOverrides, rollback,
  \* arguments of the call, and what the caller's previous call ended with
  method, amounts, routes, functionName, callerBlockNumber, previous,
  \* locals of getQuotesManyData
  pc, multicallChunk, gasLimitOverride, providerConfig, inputs, quoteStates,
  haveRetriedForSuccessRate, haveRetriedForBlockHeader,
  blockHeaderRetryAttemptNumber, blockHeaderRolledBack,
  haveRetriedForBlockConflictError, haveRetriedForOutOfGas,
  haveRetriedForTimeout, haveRetriedForUnknownReason,
  finalAttemptNumber, expectedCallsMade, totalCallsMade,
  \* the retry policy and the attempt in progress
  attemptNumber, promises, successfulQuoteStates, failedQuoteStates, retryAll,
  \* what the call ends with
  retryResult, returned, raised,
  \* collaborators
  metrics, getBlockNumberCalls

ctorVars == <<chainId, multicall2Provider, quoterAddressOverride, quoterAddress,
              retryOptions, batchParams, successRateFailureOverrides, rollback>>
argVars == <<method, amounts, routes, functionName, callerBlockNumber, previous>>
flagVars == <<haveRetriedForSuccessRate, haveRetriedForBlockHeader,
              blockHeaderRetryAttemptNumber, blockHeaderRolledBack,
              haveRetriedForBlockConflictError, haveRetriedForOutOfGas,
              haveRetriedForTimeout, haveRetriedForUnknownReason>>
paramVars == <<multicallChunk, gasLimitOverride, providerConfig>>
joinVars == <<successfulQuoteStates, failedQuoteStates, retryAll>>
endVars == <<retryResult, returned, raised>>
vars == <<ctorVars, argVars, pc, paramVars, inputs, quoteStates, flagVars,
          finalAttemptNumber, expectedCallsMade, totalCallsMade,
          attemptNumber, promises, joinVars, endVars,
          metrics, getBlockNumberCalls>>

\* ----------------------------------------------------------------- helpers
Min(a, b) == IF a < b THEN a ELSE b

\* Math.ceil(a / b) for a >= 0 and b >= 1
Ceil(a, b) == (a + b - 1) \div b

Reverse(s) == [k \in 1..Len(s) |-> s[Len(s) + 1 - k]]

\* quotient.toString(16): the hexadecimal digits of n, most significant first
RECURSIVE ToHex(_)
ToHex(n) == IF n < 16 THEN <<n>> ELSE ToHex(n \div 16) \o <<n % 16>>

\* route r of a call: one pool between two tokens of its own
RouteOf(r) == <<2 * r - 1, 2 * r>>

\* amount a of a call: its quotient
AmountOf(a) == 10 * a

\* encodeRouteToPath(route, exactOutput): the tokens of the path, reversed for exact output
encodeRouteToPath(route, exactOutput) == IF exactOutput THEN Reverse(route) ELSE route

\* amounts.map((amount) => [encodedRoute, `0x${amount.quotient.toString(16)}`])
RouteInputs(route, amts, fn) ==
  LET encodedRoute == encodeRouteToPath(route, fn = "quoteExactOutput")
  IN [j \in 1..Len(amts) |-> <<encodedRoute, ToHex(amts[j])>>]

\* a planner that emits its inputs amount-major instead of route-major
RECURSIVE FlatMapRoutesAmountMajor(_, _, _, _)
FlatMapRoutesAmountMajor(rts, amts, fn, k) ==
  IF k > Len(amts) THEN <<>>
  ELSE [r \in 1..Len(rts) |->
          <<encodeRouteToPath(rts[r], fn = "quoteExactOutput"), ToHex(amts[k])>>]
       \o FlatMapRoutesAmountMajor(rts, amts, fn, k + 1)

\* _(routes).flatMap(...).value()
RECURSIVE FlatMapRoutes(_, _, _, _)
FlatMapRoutes(rts, amts, fn, k) ==
  IF k > Len(rts) THEN <<>>
  ELSE RouteInputs(rts[k], amts, fn) \o FlatMapRoutes(rts, amts, fn, k + 1)

\* a normalization that rounds the number of chunks down instead of up
NormalizedChunkFloor(n, mc) ==
  IF n = 0 THEN 0 ELSE IF n \div mc = 0 THEN n ELSE Ceil(n, n \div mc)

\* Math.ceil(inputs.length / Math.ceil(inputs.length / multicallChunk));
\* 0 stands for the NaN of an empty input list
NormalizedChunk(n, mc) == IF n = 0 THEN 0 ELSE Ceil(n, Ceil(n, mc))

\* a chunking that balances the sizes of the chunks instead of filling them in turn
ChunkBalanced(s, size) ==
  IF Len(s) = 0 \/ size < 1 THEN <<>>
  ELSE LET n == Ceil(Len(s), size)
       IN [k \in 1..n |-> SubSeq(s, ((k - 1) * Len(s)) \div n + 1, (k * Len(s)) \div n)]

\* _.chunk(array, size)
Chunk(s, size) ==
  IF Len(s) = 0 \/ size < 1 THEN <<>>
  ELSE [k \in 1..Ceil(Len(s), size) |->
          SubSeq(s, (k - 1) * size + 1, Min(k * size, Len(s)))]

\* the pending batches of a (re-)plan
PlanQuoteStates(ins, mc) ==
  LET inputsChunked == Chunk(ins, NormalizedChunk(Len(ins), mc))
  IN [k \in 1..Len(inputsChunked) |-> [status |-> "pending", inputs |-> inputsChunked[k]]]

RECURSIVE Flatten(_)
Flatten(ss) == IF Len(ss) = 0 THEN <<>> ELSE Head(ss) \o Flatten(Tail(ss))

\* _.filter(quoteStates, predicate on status)
RECURSIVE FilterStatus(_, _)
FilterStatus(qs, st) ==
  IF Len(qs) = 0 THEN <<>>
  ELSE (IF Head(qs).status = st THEN <<Head(qs)>> ELSE <<>>) \o FilterStatus(Tail(qs), st)

\* the batches that carry aggregator results (wanted) or carry none (~wanted)
RECURSIVE FilterHasResults(_, _)
FilterHasResults(qs, wanted) ==
  IF Len(qs) = 0 THEN <<>>
  ELSE (IF (Head(qs).status # "pending" /\ ("results" \in DOMAIN Head(qs)) = wanted)
        THEN <<Head(qs)>> ELSE <<>>) \o FilterHasResults(Tail(qs), wanted)

\* a partition that counts every batch holding results as successful, the
\* batches failed for their success rate included
partitionQuotesByResults(qs) ==
  <<FilterHasResults(qs, TRUE), FilterHasResults(qs, FALSE), FilterStatus(qs, "pending")>>

partitionQuotes(qs) ==
  <<FilterStatus(qs, "success"), FilterStatus(qs, "failed"), FilterStatus(qs, "pending")>>

\* ------------------------------------------------- messages of errors
\* A message is a sequence of segments [text, len]: a piece of text and the
\* number of characters it takes.
MsgLen(msg) == LET RECURSIVE Sum(_)
                   Sum(k) == IF k = 0 THEN 0 ELSE msg[k].len + Sum(k - 1)
               IN Sum(Len(msg))

\* message.includes(text)
Includes(msg, text) == \E k \in 1..Len(msg) : msg[k].text = text /\ msg[k].len = Len(text)

\* a slice that keeps the whole message
SliceNothing(msg, n) == msg

\* message.slice(0, n)
RECURSIVE Slice(_, _)
Slice(msg, n) ==
  IF Len(msg) = 0 \/ n <= 0 THEN <<>>
  ELSE IF Head(msg).len <= n THEN <<Head(msg)>> \o Slice(Tail(msg), n - Head(msg).len)
  ELSE <<[Head(msg) EXCEPT !.len = n]>>

Text(t) == [text |-> t, len |-> Len(t)]

\* the number of decimal digits of n
RECURSIVE Digits(_)
Digits(n) == IF n < 10 THEN 1 ELSE 1 + Digits(n \div 10)

\* the messages the aggregator fails with
ErrMessages ==
  { <<Text("header not found")>>, <<Text("timeout")>>,
    <<Text("out of gas")>>, <<Text("execution reverted")>> }

\* -------------------------------------------------------------- aggregator
\* what the quoter answers for one encoded input at a block
QuoterResult(input, blockNumber) ==
  << <<"amount", input, blockNumber>>,
     <<"sqrtPriceX96After", input, blockNumber>>,
     <<"initializedTicksCrossed", input, blockNumber>>,
     <<"gasEstimate", input, blockNumber>> >>

\* the sets of positions of a batch of n inputs whose quote fails
FailSets(n) == (SUBSET (1..Min(n, MaxFailPrefix))) \cup {1..n}

\* a reply of callSameFunctionOnContractWithMultipleParams: one result per
\* input, in input order, and the block they were computed at
MulticallReply(call, drift, failing) ==
  LET blk == call.providerConfig.blockNumber + drift
  IN [blockNumber |-> blk,
      results |-> [k \in 1..Len(call.functionParams) |->
                     IF k \in failing THEN [success |-> FALSE]
                     ELSE [success |-> TRUE,
                           result |-> QuoterResult(call.functionParams[k], blk)]]]

\* an aggregator of which nothing is known: each multicall may resolve or throw
AnyAggregator == [fault |-> "any"]

\* Deterministic aggregators: the reply is a function of the inputs, the block
\* and the gas limit of the multicall. A multicall that carries the input of
\* one route and amount is answered with a fault, always, or only while the
\* gas limit is not above the configured one, or only while the block is not
\* below the chain head; every other multicall is answered in full.
Faults == { "none", "header not found", "timeout", "out of gas", "execution reverted",
            "no quotes", "one quote missing", "later block" }
Cures == {"never", "gas", "block"}
Aggregators == [route : 1..MaxRoutes, amount : 1..MaxAmounts, fault : Faults, cure : Cures]

\* the positions of a multicall's inputs that are for the aggregator's route and amount
Targeted(agg, functionParams) ==
  {k \in 1..Len(functionParams) :
     /\ functionParams[k][1] \in {RouteOf(agg.route), Reverse(RouteOf(agg.route))}
     /\ functionParams[k][2] = ToHex(AmountOf(agg.amount))}

Afflicted(agg, call) ==
  /\ agg.fault # "none"
  /\ Targeted(agg, call.functionParams) # {}
  /\ agg.cure = "gas" => call.gasLimitPerCallOverride <= DefaultGasLimitPerCall
  /\ agg.cure = "block" => call.providerConfig.blockNumber >= ChainHead

\* --------------------------------------------------------------- validator
NumSuccess(allResults) == Cardinality({k \in 1..Len(allResults) : allResults[k].success})

\* successRate < quoteMinSuccessRate, the floor being num/den
RateBelow(allResults, floor) ==
  Len(allResults) > 0 /\ NumSuccess(allResults) * floor[2] < floor[1] * Len(allResults)

\* a validator that keeps failing low batches after the success-rate retry
validateSuccessRateAlways(allResults, haveRetried, floor) ==
  IF RateBelow(allResults, floor)
  THEN <<[name |-> "SuccessRateError",
          message |-> <<[text |-> "Quote success rate below threshold", len |-> 34,
                         floor |-> floor, successes |-> NumSuccess(allResults),
                         total |-> Len(allResults)]>>]>>
  ELSE <<>>

\* validateSuccessRate: <<>> for no error, <<error>> for a SuccessRateError
validateSuccessRate(allResults, haveRetried, floor) ==
  IF RateBelow(allResults, floor)
  THEN IF haveRetried THEN <<>>
       ELSE <<[name |-> "SuccessRateError",
               message |-> <<[text |-> "Quote success rate below threshold", len |-> 34,
                              floor |-> floor, successes |-> NumSuccess(allResults),
                              total |-> Len(allResults)]>>]>>
  ELSE <<>>

\* _(blockNumbers).map(toNumber).uniq(): the distinct values in order of first occurrence
RECURSIVE Uniq(_)
Uniq(s) ==
  IF Len(s) = 0 THEN <<>>
  ELSE LET front == Uniq(SubSeq(s, 1, Len(s) - 1))
           last == s[Len(s)]
       IN IF \E k \in 1..Len(front) : front[k] = last THEN front ELSE Append(front, last)

\* validateBlockNumbers: <<>> for no error, <<error>> for a BlockConflictError
validateBlockNumbers(successful, totalCalls, gasLimit) ==
  IF Len(successful) <= 1 THEN <<>>
  ELSE LET uniqBlocks == Uniq([k \in 1..Len(successful) |-> successful[k].results.blockNumber])
       IN IF Len(uniqBlocks) = 1 THEN <<>>
          ELSE <<[name |-> "BlockConflictError",
                  message |-> <<[text |-> "Quotes returned from different blocks", len |-> 37,
                                 blocks |-> uniqBlocks, calls |-> totalCalls,
                                 gasLimit |-> gasLimit]>>]>>

\* ---------------------------------------------------------- batch executor
\* the batch state a task returns when the aggregator answered
TaskResolved(batchInputs, results, haveRetried, floor) ==
  LET successRateError == validateSuccessRate(results.results, haveRetried, floor)
  IN IF Len(successRateError) > 0
     THEN [status |-> "failed", inputs |-> batchInputs,
           reason |-> successRateError[1], results |-> results]
     ELSE [status |-> "success", inputs |-> batchInputs, results |-> results]

\* a classification that tests the substrings in another order
ReasonNameGasFirst(message) ==
  IF Includes(message, "out of gas") THEN "ProviderGasError"
  ELSE IF Includes(message, "timeout") THEN "ProviderTimeoutError"
  ELSE IF Includes(message, "header not found") THEN "ProviderBlockHeaderError"
  ELSE "Error"

\* the name of the error class an aggregator error is rethrown as
ReasonName(message) ==
  IF Includes(message, "header not found") THEN "ProviderBlockHeaderError"
  ELSE IF Includes(message, "timeout") THEN "ProviderTimeoutError"
  ELSE IF Includes(message, "out of gas") THEN "ProviderGasError"
  ELSE "Error"

\* a catch block that returns the failed state without the inputs of the batch
TaskRejectedWithoutInputs(batchInputs, message, idx, total) ==
  [status |-> "failed", inputs |-> <<>>,
   reason |-> [name |-> ReasonName(message), message |-> Slice(message, 500)]]

\* a catch block that leaves the batch pending instead of marking it failed
TaskRejectedStillPending(batchInputs, message, idx, total) ==
  [status |-> "pending", inputs |-> batchInputs]

\* the batch state a task returns when the aggregator threw (the catch block);
\* idx is the position of the batch, counted from 0, among total batches
TaskRejected(batchInputs, message, idx, total) ==
  LET name == ReasonName(message)
      short == Slice(message, 500)
      text ==
        IF name = "ProviderTimeoutError"
        THEN <<[text |-> "Req idx/total. Request had n inputs. ",
                len |-> 28 + Digits(idx) + Digits(total) + Digits(Len(batchInputs)),
                idx |-> idx, total |-> total, n |-> Len(batchInputs)]>> \o short
        ELSE IF name = "Error"
        THEN <<Text("Unknown error from provider: ")>> \o short
        ELSE short
  IN [status |-> "failed", inputs |-> batchInputs,
      reason |-> [name |-> name, message |-> text]]

\* the batch state the task of batch idx returns under a deterministic aggregator
DeterministicTask(agg, call, idx, total, haveRetried, floor) ==
  IF ~Afflicted(agg, call)
  THEN TaskResolved(call.functionParams, MulticallReply(call, 0, {}), haveRetried, floor)
  ELSE IF agg.fault = "no quotes"
  THEN TaskResolved(call.functionParams,
                    MulticallReply(call, 0, 1..Len(call.functionParams)), haveRetried, floor)
  ELSE IF agg.fault = "one quote missing"
  THEN TaskResolved(call.functionParams,
                    MulticallReply(call, 0, Targeted(agg, call.functionParams)),
                    haveRetried, floor)
  ELSE IF agg.fault = "later block"
  THEN TaskResolved(call.functionParams, MulticallReply(call, MaxDrift, {}), haveRetried, floor)
  ELSE TaskRejected(call.functionParams, <<Text(agg.fault)>>, idx - 1, total)

\* ------------------------------------------------------------------ metrics
MetricNames ==
  { "QuoteBlockConflictErrorRetry", "QuoteBlockHeaderNotFoundRetry", "QuoteTimeoutRetry",
    "QuoteOutOfGasExceptionRetry", "QuoteSuccessRateRetry", "QuoteUnknownReasonRetry",
    "QuoteApproxGasUsedPerSuccessfulCall", "QuoteNumRetryLoops", "QuoteTotalCallsToProvider",
    "QuoteExpectedCallsToProvider", "QuoteNumRetriedCalls" }

\* metric.putMetric(name, value, Count): the values emitted under each name, in order
putMetric(m, name, value) == [m EXCEPT ![name] = Append(@, value)]

\* --------------------------------------------------------- retry controller
\* The controller's view of the locals it reads and writes while it walks
\* the failed batches of an attempt.
Controller ==
  [haveRetriedForSuccessRate |-> haveRetriedForSuccessRate,
   haveRetriedForBlockHeader |-> haveRetriedForBlockHeader,
   blockHeaderRetryAttemptNumber |-> blockHeaderRetryAttemptNumber,
   blockHeaderRolledBack |-> blockHeaderRolledBack,
   haveRetriedForBlockConflictError |-> haveRetriedForBlockConflictError,
   haveRetriedForOutOfGas |-> haveRetriedForOutOfGas,
   haveRetriedForTimeout |-> haveRetriedForTimeout,
   haveRetriedForUnknownReason |-> haveRetriedForUnknownReason,
   gasLimitOverride |-> gasLimitOverride,
   multicallChunk |-> multicallChunk,
   blockNumber |-> providerConfig.blockNumber,
   retryAll |-> FALSE,
   metrics |-> metrics,
   getBlockNumberCalls |-> getBlockNumberCalls]

OnBlockConflict(c) ==
  LET c1 == IF ~c.haveRetriedForBlockConflictError
            THEN [c EXCEPT !.metrics = putMetric(@, "QuoteBlockConflictErrorRetry", 1),
                           !.haveRetriedForBlockConflictError = TRUE]
            ELSE c
  IN [c1 EXCEPT !.retryAll = TRUE]

\* a block-header branch that rolls back whether or not rollback is enabled
OnBlockHeaderRollbackAlways(c, attempt, rollbackEnabled) ==
  LET c1 == IF ~c.haveRetriedForBlockHeader
            THEN [c EXCEPT !.metrics = putMetric(@, "QuoteBlockHeaderNotFoundRetry", 1),
                           !.haveRetriedForBlockHeader = TRUE]
            ELSE c
      roll == /\ c1.blockHeaderRetryAttemptNumber # Undefined
              /\ c1.blockHeaderRetryAttemptNumber # 0
              /\ c1.blockHeaderRetryAttemptNumber < attempt
              /\ ~c1.blockHeaderRolledBack
      c2 == IF roll
            THEN [c1 EXCEPT !.blockNumber = IF @ # 0 THEN @ - 1 ELSE ChainHead - 1,
                            !.getBlockNumberCalls = IF c1.blockNumber # 0 THEN @ ELSE @ + 1,
                            !.retryAll = TRUE,
                            !.blockHeaderRolledBack = TRUE]
            ELSE c1
  IN [c2 EXCEPT !.blockHeaderRetryAttemptNumber = attempt]

\* a block-header branch that rolls the block back without resetting the batches
OnBlockHeaderRollbackNoReset(c, attempt, rollbackEnabled) ==
  LET c1 == IF ~c.haveRetriedForBlockHeader
            THEN [c EXCEPT !.metrics = putMetric(@, "QuoteBlockHeaderNotFoundRetry", 1),
                           !.haveRetriedForBlockHeader = TRUE]
            ELSE c
      roll == /\ c1.blockHeaderRetryAttemptNumber # Undefined
              /\ c1.blockHeaderRetryAttemptNumber # 0
              /\ c1.blockHeaderRetryAttemptNumber < attempt
              /\ ~c1.blockHeaderRolledBack
              /\ rollbackEnabled
      c2 == IF roll
            THEN [c1 EXCEPT !.blockNumber = IF @ # 0 THEN @ - 1 ELSE ChainHead - 1,
                            !.getBlockNumberCalls = IF c1.blockNumber # 0 THEN @ ELSE @ + 1,
                            !.blockHeaderRolledBack = TRUE]
            ELSE c1
  IN [c2 EXCEPT !.blockHeaderRetryAttemptNumber = attempt]

OnBlockHeader(c, attempt, rollbackEnabled) ==
  LET c1 == IF ~c.haveRetriedForBlockHeader
            THEN [c EXCEPT !.metrics = putMetric(@, "QuoteBlockHeaderNotFoundRetry", 1),
                           !.haveRetriedForBlockHeader = TRUE]
            ELSE c
      roll == /\ c1.blockHeaderRetryAttemptNumber # Undefined
              /\ c1.blockHeaderRetryAttemptNumber # 0
              /\ c1.blockHeaderRetryAttemptNumber < attempt
              /\ ~c1.blockHeaderRolledBack
              /\ rollbackEnabled
      c2 == IF roll
            THEN [c1 EXCEPT !.blockNumber = IF @ # 0 THEN @ - 1 ELSE ChainHead - 1,
                            !.getBlockNumberCalls = IF c1.blockNumber # 0 THEN @ ELSE @ + 1,
                            !.retryAll = TRUE,
                            !.blockHeaderRolledBack = TRUE]
            ELSE c1
  IN [c2 EXCEPT !.blockHeaderRetryAttemptNumber = attempt]

\* a timeout branch that emits its metric for every failed batch
OnTimeoutEveryTime(c) ==
  [c EXCEPT !.metrics = putMetric(@, "QuoteTimeoutRetry", 1),
            !.haveRetriedForTimeout = TRUE]

OnTimeout(c) ==
  IF ~c.haveRetriedForTimeout
  THEN [c EXCEPT !.metrics = putMetric(@, "QuoteTimeoutRetry", 1),
                 !.haveRetriedForTimeout = TRUE]
  ELSE c

\* an out-of-gas branch that also resets every batch
OnOutOfGasRetryAll(c) ==
  [c EXCEPT !.metrics = IF c.haveRetriedForOutOfGas THEN @
                        ELSE putMetric(@, "QuoteOutOfGasExceptionRetry", 1),
            !.haveRetriedForOutOfGas = TRUE,
            !.gasLimitOverride = OutOfGasGasLimit,
            !.multicallChunk = OutOfGasMulticallChunk,
            !.retryAll = TRUE]

OnOutOfGas(c) ==
  LET c1 == IF ~c.haveRetriedForOutOfGas
            THEN [c EXCEPT !.metrics = putMetric(@, "QuoteOutOfGasExceptionRetry", 1),
                           !.haveRetriedForOutOfGas = TRUE]
            ELSE c
  IN [c1 EXCEPT !.gasLimitOverride = OutOfGasGasLimit,
                !.multicallChunk = OutOfGasMulticallChunk]

OnSuccessRate(c, overrides) ==
  IF ~c.haveRetriedForSuccessRate
  THEN [c EXCEPT !.metrics = putMetric(@, "QuoteSuccessRateRetry", 1),
                 !.haveRetriedForSuccessRate = TRUE,
                 !.gasLimitOverride = overrides.gasLimitOverride,
                 !.multicallChunk = overrides.multicallChunk,
                 !.retryAll = TRUE]
  ELSE c

\* an unknown-error branch that also resets every batch
OnUnknownRetryAll(c) ==
  [c EXCEPT !.metrics = IF c.haveRetriedForUnknownReason THEN @
                        ELSE putMetric(@, "QuoteUnknownReasonRetry", 1),
            !.haveRetriedForUnknownReason = TRUE,
            !.retryAll = TRUE]

OnUnknown(c) ==
  IF ~c.haveRetriedForUnknownReason
  THEN [c EXCEPT !.metrics = putMetric(@, "QuoteUnknownReasonRetry", 1),
                 !.haveRetriedForUnknownReason = TRUE]
  ELSE c

\* the body of the loop over failedQuoteStates: the instanceof chain
HandleFailure(error, attempt, c, rollbackEnabled, overrides) ==
  IF error.name = "BlockConflictError" THEN OnBlockConflict(c)
  ELSE IF error.name = "ProviderBlockHeaderError" THEN OnBlockHeader(c, attempt, rollbackEnabled)
  ELSE IF error.name = "ProviderTimeoutError" THEN OnTimeout(c)
  ELSE IF error.name = "ProviderGasError" THEN OnOutOfGas(c)
  ELSE IF error.name = "SuccessRateError" THEN OnSuccessRate(c, overrides)
  ELSE OnUnknown(c)

\* for (const failedQuoteState of failedQuoteStates) { ... }
RECURSIVE HandleFailures(_, _, _, _, _, _)
HandleFailures(failed, k, attempt, c, rollbackEnabled, overrides) ==
  IF k > Len(failed) THEN c
  ELSE HandleFailures(failed, k + 1, attempt,
                      HandleFailure(failed[k].reason, attempt, c, rollbackEnabled, overrides),
                      rollbackEnabled, overrides)

\* _.map(failedQuoteStates, (s) => s.reason.name).join(', ')
ReasonNames(failed) == [k \in 1..Len(failed) |-> failed[k].reason.name]

\* ---------------------------------------------------------- result assembler
\* an assembler that reads the gas estimate and the ticks from each other's slot
toQuoteSlotsSwapped(amount, quoteResult) ==
  IF ~quoteResult.success
  THEN [amount |-> amount, quote |-> Null, sqrtPriceX96AfterList |-> Null,
        gasEstimate |-> Null, initializedTicksCrossedList |-> Null]
  ELSE [amount |-> amount, quote |-> quoteResult.result[1],
        sqrtPriceX96AfterList |-> quoteResult.result[2],
        initializedTicksCrossedList |-> quoteResult.result[4],
        gasEstimate |-> quoteResult.result[3]]

toQuote(amount, quoteResult) ==
  IF ~quoteResult.success
  THEN [amount |-> amount, quote |-> Null, sqrtPriceX96AfterList |-> Null,
        gasEstimate |-> Null, initializedTicksCrossedList |-> Null]
  ELSE [amount |-> amount, quote |-> quoteResult.result[1],
        sqrtPriceX96AfterList |-> quoteResult.result[2],
        initializedTicksCrossedList |-> quoteResult.result[3],
        gasEstimate |-> quoteResult.result[4]]

processQuoteResults(quoteResults, rts, amts) ==
  LET quotesResultsByRoute == Chunk(quoteResults, Len(amts))
  IN [i \in 1..Len(quotesResultsByRoute) |->
        <<rts[i], [index \in 1..Len(quotesResultsByRoute[i]) |->
                     toQuote(amts[index], quotesResultsByRoute[i][index])]>>]

\* -------------------------------------------------------------- constructor
\* the chains of the registry, and one chain the registry has no address for
ChainIds == {"MAINNET", "RINKEBY", "ROPSTEN"}

\* an address that is undefined: no override given, no entry in the registry
NoAddress == "undefined"

chainToQuoterAddress ==
  [chain \in ChainIds |->
     IF chain = "MAINNET" THEN "QUOTER_V2_ADDRESS"
     ELSE IF chain = "RINKEBY" THEN "0xbec7965F684FFdb309b9189BDc10C31337C37CBf"
     ELSE NoAddress]

\* a constructor that consults the registry before the override
ResolveQuoterAddressRegistryFirst(chain, override) ==
  IF chainToQuoterAddress[chain] # NoAddress THEN chainToQuoterAddress[chain] ELSE override

\* quoterAddressOverride ? quoterAddressOverride : chainToQuoterAddress[chainId]
ResolveQuoterAddress(chain, override) ==
  IF override # NoAddress THEN override ELSE chainToQuoterAddress[chain]

\* ------------------------------------------------------------- initial state
\* each public method passing the quoter function of the other one
QuoterFunctionSwapped ==
  [getQuotesManyExactIn |-> "quoteExactOutput", getQuotesManyExactOut |-> "quoteExactInput"]

\* the functionName getQuotesManyExactIn and getQuotesManyExactOut pass to getQuotesManyData
QuoterFunction ==
  [getQuotesManyExactIn |-> "quoteExactInput", getQuotesManyExactOut |-> "quoteExactOutput"]

\* the configurations and arguments the engine specification explores
MulticallChunks == {2}
OverrideMulticallChunks == {4}
QuoteMinSuccessRates == {<<1, 5>>, <<7, 10>>}
\* the calls: getQuotesManyExactIn without a pinned block and pinned to the
\* first block of the chain, getQuotesManyExactOut pinned to the current block
Calls == { [method |-> "getQuotesManyExactIn", blockNumber |-> Undefined],
           [method |-> "getQuotesManyExactIn", blockNumber |-> 0],
           [method |-> "getQuotesManyExactOut", blockNumber |-> ChainHead] }

\* the locals before the call has started
NoCall ==
  /\ previous = <<>>
  /\ multicallChunk = 0 /\ gasLimitOverride = 0
  /\ providerConfig = [blockNumber |-> Undefined]
  /\ inputs = <<>> /\ quoteStates = <<>>
  /\ haveRetriedForSuccessRate = FALSE /\ haveRetriedForBlockHeader = FALSE
  /\ blockHeaderRetryAttemptNumber = Undefined /\ blockHeaderRolledBack = FALSE
  /\ haveRetriedForBlockConflictError = FALSE /\ haveRetriedForOutOfGas = FALSE
  /\ haveRetriedForTimeout = FALSE /\ haveRetriedForUnknownReason = FALSE
  /\ finalAttemptNumber = 1 /\ expectedCallsMade = 0 /\ totalCallsMade = 0
  /\ attemptNumber = 1 /\ promises = <<>>
  /\ successfulQuoteStates = <<>> /\ failedQuoteStates = <<>> /\ retryAll = FALSE
  /\ retryResult = <<>> /\ returned = <<>> /\ raised = <<>>
  /\ metrics = [n \in MetricNames |-> <<>>]
  /\ getBlockNumberCalls = 0

\* constructed for mainnet without an address override, no call made yet
Idle ==
  /\ chainId = "MAINNET" /\ quoterAddressOverride = NoAddress
  /\ multicall2Provider = AnyAggregator
  /\ quoterAddress = ResolveQuoterAddress(chainId, quoterAddressOverride)
  /\ pc = "idle"
  /\ NoCall

Init ==
  /\ retryOptions \in [retries : 0..MaxRetries]
  /\ batchParams \in [multicallChunk : MulticallChunks,
                      gasLimitPerCall : {DefaultGasLimitPerCall},
                      quoteMinSuccessRate : QuoteMinSuccessRates]
  /\ successRateFailureOverrides \in [gasLimitOverride : {DefaultGasLimitOverride},
                                      multicallChunk : OverrideMulticallChunks]
  /\ rollback \in BOOLEAN
  /\ \E nr \in 0..MaxRoutes : routes = [r \in 1..nr |-> RouteOf(r)]
  /\ \E na \in 0..MaxAmounts : amounts = [a \in 1..na |-> AmountOf(a)]
  /\ \E call \in Calls : method = call.method /\ callerBlockNumber = call.blockNumber
  /\ functionName = QuoterFunction[method]
  /\ Idle

\* ------------------------------------------------------------------ actions
\* retry flags that live on across the calls of a provider
RetryFlagsKept ==
  [haveRetriedForSuccessRate |-> haveRetriedForSuccessRate,
   haveRetriedForBlockHeader |-> haveRetriedForBlockHeader,
   blockHeaderRetryAttemptNumber |-> blockHeaderRetryAttemptNumber,
   blockHeaderRolledBack |-> blockHeaderRolledBack,
   haveRetriedForBlockConflictError |-> haveRetriedForBlockConflictError,
   haveRetriedForOutOfGas |-> haveRetriedForOutOfGas,
   haveRetriedForTimeout |-> haveRetriedForTimeout,
   haveRetriedForUnknownReason |-> haveRetriedForUnknownReason]

\* the retry flags are locals of getQuotesManyData, declared at its entry
RetryFlagsAtEntry ==
  [haveRetriedForSuccessRate |-> FALSE,
   haveRetriedForBlockHeader |-> FALSE,
   blockHeaderRetryAttemptNumber |-> Undefined,
   blockHeaderRolledBack |-> FALSE,
   haveRetriedForBlockConflictError |-> FALSE,
   haveRetriedForOutOfGas |-> FALSE,
   haveRetriedForTimeout |-> FALSE,
   haveRetriedForUnknownReason |-> FALSE]

\* getQuotesManyData up to the call of retry(): pin the block, plan the batches
GetQuotesManyData ==
  /\ pc = "idle"
  /\ multicallChunk' = batchParams.multicallChunk
  /\ gasLimitOverride' = batchParams.gasLimitPerCall
  /\ providerConfig' = [blockNumber |-> IF callerBlockNumber # Undefined
                                        THEN callerBlockNumber ELSE ChainHead]
  /\ getBlockNumberCalls' = IF callerBlockNumber # Undefined
                            THEN getBlockNumberCalls ELSE getBlockNumberCalls + 1
  /\ inputs' = FlatMapRoutes(routes, amounts, functionName, 1)
  /\ quoteStates' = PlanQuoteStates(inputs', multicallChunk')
  /\ haveRetriedForSuccessRate' = RetryFlagsAtEntry.haveRetriedForSuccessRate
  /\ haveRetriedForBlockHeader' = RetryFlagsAtEntry.haveRetriedForBlockHeader
  /\ blockHeaderRetryAttemptNumber' = RetryFlagsAtEntry.blockHeaderRetryAttemptNumber
  /\ blockHeaderRolledBack' = RetryFlagsAtEntry.blockHeaderRolledBack
  /\ haveRetriedForBlockConflictError' = RetryFlagsAtEntry.haveRetriedForBlockConflictError
  /\ haveRetriedForOutOfGas' = RetryFlagsAtEntry.haveRetriedForOutOfGas
  /\ haveRetriedForTimeout' = RetryFlagsAtEntry.haveRetriedForTimeout
  /\ haveRetriedForUnknownReason' = RetryFlagsAtEntry.haveRetriedForUnknownReason
  /\ finalAttemptNumber' = 1
  /\ expectedCallsMade' = Len(quoteStates')
  /\ totalCallsMade' = 0
  /\ pc' = "attempt"
  /\ UNCHANGED <<ctorVars, argVars, attemptNumber, promises, joinVars, endVars, metrics>>

\* an attempt that calls the aggregator for every batch, successes included
StartAttemptEveryBatch ==
  /\ pc = "attempt"
  /\ finalAttemptNumber' = attemptNumber
  /\ promises' = [idx \in 1..Len(quoteStates) |->
       [state |-> "calling",
        call |-> [address |-> quoterAddress,
                  functionName |-> functionName,
                  functionParams |-> quoteStates[idx].inputs,
                  providerConfig |-> providerConfig,
                  gasLimitPerCallOverride |-> gasLimitOverride]]]
  /\ totalCallsMade' = totalCallsMade + Len(quoteStates)
  /\ pc' = "awaiting"
  /\ UNCHANGED <<ctorVars, argVars, paramVars, inputs, quoteStates, flagVars,
                 expectedCallsMade, attemptNumber, joinVars, endVars,
                 metrics, getBlockNumberCalls>>

\* an attempt that counts a call for every task, skipped successes included
StartAttemptCountingEveryTask ==
  /\ pc = "attempt"
  /\ finalAttemptNumber' = attemptNumber
  /\ promises' = [idx \in 1..Len(quoteStates) |->
       IF quoteStates[idx].status = "success"
       THEN [state |-> "settled", value |-> quoteStates[idx]]
       ELSE [state |-> "calling",
             call |-> [address |-> quoterAddress,
                       functionName |-> functionName,
                       functionParams |-> quoteStates[idx].inputs,
                       providerConfig |-> providerConfig,
                       gasLimitPerCallOverride |-> gasLimitOverride]]]
  /\ totalCallsMade' = totalCallsMade + Len(quoteStates)
  /\ pc' = "awaiting"
  /\ UNCHANGED <<ctorVars, argVars, paramVars, inputs, quoteStates, flagVars,
                 expectedCallsMade, attemptNumber, joinVars, endVars,
                 metrics, getBlockNumberCalls>>

\* the start of an attempt: every batch that is not a success issues its multicall
StartAttempt ==
  /\ pc = "attempt"
  /\ finalAttemptNumber' = attemptNumber
  /\ promises' = [idx \in 1..Len(quoteStates) |->
       IF quoteStates[idx].status = "success"
       THEN [state |-> "settled", value |-> quoteStates[idx]]
       ELSE [state |-> "calling",
             call |-> [address |-> quoterAddress,
                       functionName |-> functionName,
                       functionParams |-> quoteStates[idx].inputs,
                       providerConfig |-> providerConfig,
                       gasLimitPerCallOverride |-> gasLimitOverride]]]
  /\ totalCallsMade' = totalCallsMade
       + Cardinality({idx \in 1..Len(quoteStates) : quoteStates[idx].status # "success"})
  /\ pc' = "awaiting"
  /\ UNCHANGED <<ctorVars, argVars, paramVars, inputs, quoteStates, flagVars,
                 expectedCallsMade, attemptNumber, joinVars, endVars,
                 metrics, getBlockNumberCalls>>

\* a task that marks the success-rate retry as made as soon as its own batch
\* fails, while its sibling tasks are still running
MulticallResolvesMarkingRetried(idx) ==
  /\ pc = "awaiting"
  /\ promises[idx].state = "calling"
  /\ \E drift \in 0..MaxDrift, failing \in FailSets(Len(promises[idx].call.functionParams)) :
       promises' = [promises EXCEPT ![idx] =
         [state |-> "settled",
          value |-> TaskResolved(promises[idx].call.functionParams,
                                 MulticallReply(promises[idx].call, drift, failing),
                                 haveRetriedForSuccessRate,
                                 batchParams.quoteMinSuccessRate)]]
  /\ haveRetriedForSuccessRate' =
       (haveRetriedForSuccessRate \/ promises'[idx].value.status = "failed")
  /\ UNCHANGED <<ctorVars, argVars, pc, paramVars, inputs, quoteStates,
                 haveRetriedForBlockHeader, blockHeaderRetryAttemptNumber,
                 blockHeaderRolledBack, haveRetriedForBlockConflictError,
                 haveRetriedForOutOfGas, haveRetriedForTimeout,
                 haveRetriedForUnknownReason,
                 finalAttemptNumber, expectedCallsMade, totalCallsMade,
                 attemptNumber, joinVars, endVars, metrics, getBlockNumberCalls>>

\* the aggregator answers the multicall of batch idx
MulticallResolves(idx) ==
  /\ pc = "awaiting"
  /\ promises[idx].state = "calling"
  /\ \E drift \in 0..MaxDrift, failing \in FailSets(Len(promises[idx].call.functionParams)) :
       promises' = [promises EXCEPT ![idx] =
         [state |-> "settled",
          value |-> TaskResolved(promises[idx].call.functionParams,
                                 MulticallReply(promises[idx].call, drift, failing),
                                 haveRetriedForSuccessRate,
                                 batchParams.quoteMinSuccessRate)]]
  /\ UNCHANGED <<ctorVars, argVars, pc, paramVars, inputs, quoteStates, flagVars,
                 finalAttemptNumber, expectedCallsMade, totalCallsMade,
                 attemptNumber, joinVars, endVars, metrics, getBlockNumberCalls>>

\* the multicall of batch idx throws
MulticallRejects(idx) ==
  /\ pc = "awaiting"
  /\ promises[idx].state = "calling"
  /\ \E message \in ErrMessages :
       promises' = [promises EXCEPT ![idx] =
         [state |-> "settled",
          value |-> TaskRejected(promises[idx].call.functionParams, message,
                                 idx - 1, Len(quoteStates))]]
  /\ UNCHANGED <<ctorVars, argVars, pc, paramVars, inputs, quoteStates, flagVars,
                 finalAttemptNumber, expectedCallsMade, totalCallsMade,
                 attemptNumber, joinVars, endVars, metrics, getBlockNumberCalls>>

\* what the attempt function throws (<<error>>) or returns (<<>>) after the join
AttemptError(successful, failed, pending) ==
  IF Len(pending) > 0
  THEN <<[name |-> "Error", message |-> <<Text("Pending quote after waiting for all promises.")>>]>>
  ELSE IF Len(failed) > 0
  THEN <<[name |-> "Error",
          message |-> <<[text |-> "Failed to get n quotes. Reasons: ", len |-> 32 + Digits(Len(failed)),
                         n |-> Len(failed), reasons |-> ReasonNames(failed)]>>]>>
  ELSE IF Len(successful) = 0
  THEN <<[name |-> "TypeError", message |-> <<Text("Cannot read properties of undefined")>>]>>
  ELSE <<>>

\* a retry policy that allows one retry too many
ShouldRetryOnceMore(attempt, retries) == attempt <= retries + 1

\* the retry policy (async-retry): a thrown attempt is retried while fewer
\* than `retries` retries have been made
ShouldRetry(attempt, retries) == attempt <= retries

\* a join that resumes as soon as one task has returned
PromiseRace(ps) == \E idx \in 1..Len(ps) : ps[idx].state = "settled"

\* Promise.all resumes the attempt when every task has returned
PromiseAll(ps) == \A idx \in 1..Len(ps) : ps[idx].state = "settled"

\* the states Promise.all hands back, in batch order; a task that has not
\* returned has produced no new state for its batch
Awaited(ps, states) ==
  [idx \in 1..Len(ps) |-> IF ps[idx].state = "settled" THEN ps[idx].value
                                                          ELSE states[idx]]

\* what the code after Promise.all computes: the partition, the validator,
\* the retry controller over the failed batches, and the error the attempt
\* throws (<<>> when it returns)
JoinOutcome ==
  LET joined == Awaited(promises, quoteStates)
      parts == partitionQuotes(joined)
      blockNumberError == validateBlockNumbers(parts[1], expectedCallsMade, gasLimitOverride)
      c0 == [Controller EXCEPT !.retryAll = Len(blockNumberError) > 0]
      c == IF Len(parts[3]) > 0 THEN Controller
           ELSE HandleFailures(parts[2], 1, attemptNumber, c0, rollback,
                               successRateFailureOverrides)
  IN [joined |-> joined, successful |-> parts[1], failed |-> parts[2],
      c |-> c, error |-> AttemptError(parts[1], parts[2], parts[3])]

\* Promise.all has settled: the validator, the retry controller, the re-plan,
\* and the throw or return of the attempt, handed to the retry policy
JoinAttempt ==
  /\ pc = "awaiting"
  /\ PromiseAll(promises)
  /\ \E o \in {JoinOutcome} :
       \E retrying \in {Len(o.error) > 0 /\ ShouldRetry(attemptNumber, retryOptions.retries)} :
        \* the locals of the attempt are kept only when the attempt was the last
        /\ successfulQuoteStates' = IF retrying THEN <<>> ELSE o.successful
        /\ failedQuoteStates' = IF retrying THEN <<>> ELSE o.failed
        /\ retryAll' = IF retrying THEN FALSE ELSE o.c.retryAll
        /\ haveRetriedForSuccessRate' = o.c.haveRetriedForSuccessRate
        /\ haveRetriedForBlockHeader' = o.c.haveRetriedForBlockHeader
        /\ blockHeaderRetryAttemptNumber' = o.c.blockHeaderRetryAttemptNumber
        /\ blockHeaderRolledBack' = o.c.blockHeaderRolledBack
        /\ haveRetriedForBlockConflictError' = o.c.haveRetriedForBlockConflictError
        /\ haveRetriedForOutOfGas' = o.c.haveRetriedForOutOfGas
        /\ haveRetriedForTimeout' = o.c.haveRetriedForTimeout
        /\ haveRetriedForUnknownReason' = o.c.haveRetriedForUnknownReason
        /\ gasLimitOverride' = o.c.gasLimitOverride
        /\ multicallChunk' = o.c.multicallChunk
        /\ providerConfig' = [providerConfig EXCEPT !.blockNumber = o.c.blockNumber]
        /\ metrics' = o.c.metrics
        /\ getBlockNumberCalls' = o.c.getBlockNumberCalls
        /\ quoteStates' = IF o.c.retryAll THEN PlanQuoteStates(inputs, o.c.multicallChunk)
                          ELSE o.joined
        /\ promises' = <<>>
        /\ IF Len(o.error) = 0
           THEN /\ retryResult' = <<[results |-> Flatten([k \in 1..Len(o.successful) |->
                                                           o.successful[k].results.results]),
                                     blockNumber |-> o.successful[1].results.blockNumber]>>
                /\ pc' = "resolved"
                /\ UNCHANGED <<attemptNumber, raised>>
           ELSE IF retrying
           THEN /\ attemptNumber' = attemptNumber + 1
                /\ pc' = "attempt"
                /\ UNCHANGED <<retryResult, raised>>
           ELSE /\ raised' = o.error
                /\ pc' = "raised"
                /\ UNCHANGED <<retryResult, attemptNumber>>
  /\ UNCHANGED <<ctorVars, argVars, inputs, finalAttemptNumber, expectedCallsMade,
                 totalCallsMade, returned>>

\* retry() has resolved: assemble the quotes, emit the call's metrics, return
ReturnQuotes ==
  /\ pc = "resolved"
  /\ returned' = <<[routesWithQuotes |-> processQuoteResults(retryResult[1].results, routes, amounts),
                    blockNumber |-> retryResult[1].blockNumber]>>
  /\ metrics' = putMetric(putMetric(putMetric(putMetric(metrics,
                  "QuoteNumRetryLoops", finalAttemptNumber - 1),
                  "QuoteTotalCallsToProvider", totalCallsMade),
                  "QuoteExpectedCallsToProvider", expectedCallsMade),
                  "QuoteNumRetriedCalls", totalCallsMade - expectedCallsMade)
  /\ pc' = "returned"
  /\ UNCHANGED <<ctorVars, argVars, paramVars, inputs, quoteStates, flagVars,
                 finalAttemptNumber, expectedCallsMade, totalCallsMade,
                 attemptNumber, promises, joinVars, retryResult, raised,
                 getBlockNumberCalls>>

Next ==
  \/ GetQuotesManyData
  \/ StartAttempt
  \/ \E idx \in 1..Len(promises) : MulticallResolves(idx)
  \/ \E idx \in 1..Len(promises) : MulticallRejects(idx)
  \/ JoinAttempt
  \/ ReturnQuotes

Spec == Init /\ [][Next]_vars

\* new V3QuoteProvider(chainId, ..., quoterAddressOverride)
Construct ==
  /\ pc = "new"
  /\ \E address \in {ResolveQuoterAddress(chainId, quoterAddressOverride)} :
       IF address = NoAddress
       THEN /\ raised' = <<[name |-> "Error",
                            message |-> <<[text |-> "No address for Uniswap QuoterV2 Contract on chain id: ",
                                           len |-> 54 + Len(chainId), chainId |-> chainId]>>]>>
            /\ pc' = "thrown"
            /\ UNCHANGED quoterAddress
       ELSE /\ quoterAddress' = address
            /\ pc' = "idle"
            /\ UNCHANGED raised
  /\ UNCHANGED <<chainId, multicall2Provider, quoterAddressOverride, retryOptions, batchParams,
                 successRateFailureOverrides, rollback, argVars, paramVars, inputs,
                 quoteStates, flagVars, finalAttemptNumber, expectedCallsMade,
                 totalCallsMade, attemptNumber, promises, joinVars, retryResult,
                 returned, metrics, getBlockNumberCalls>>

\* the engine from its construction on, for every chain, with and without an
\* address override
QuoterAddressOverrides == {NoAddress, "0xOverride"}

InitCtor ==
  /\ chainId \in ChainIds
  /\ quoterAddressOverride \in QuoterAddressOverrides
  /\ quoterAddress = NoAddress
  /\ multicall2Provider = AnyAggregator
  /\ retryOptions \in [retries : 0..1]
  /\ batchParams = [multicallChunk |-> 2, gasLimitPerCall |-> DefaultGasLimitPerCall,
                    quoteMinSuccessRate |-> <<1, 5>>]
  /\ successRateFailureOverrides = [gasLimitOverride |-> DefaultGasLimitOverride,
                                    multicallChunk |-> 4]
  /\ rollback = FALSE
  /\ \E nr \in 1..2 : routes = [r \in 1..nr |-> RouteOf(r)]
  /\ \E na \in 1..2 : amounts = [a \in 1..na |-> AmountOf(a)]
  /\ method = "getQuotesManyExactIn" /\ functionName = QuoterFunction[method]
  /\ callerBlockNumber = Undefined
  /\ pc = "new"
  /\ NoCall

NextCtor == Construct \/ Next

SpecCtor == InitCtor /\ [][NextCtor]_vars

\* the multicall of batch idx is answered by a deterministic aggregator
MulticallSettles(idx) ==
  /\ pc = "awaiting"
  /\ promises[idx].state = "calling"
  /\ promises' = [promises EXCEPT ![idx] =
       [state |-> "settled",
        value |-> DeterministicTask(multicall2Provider, promises[idx].call, idx,
                                    Len(quoteStates), haveRetriedForSuccessRate,
                                    batchParams.quoteMinSuccessRate)]]
  /\ UNCHANGED <<ctorVars, argVars, pc, paramVars, inputs, quoteStates, flagVars,
                 finalAttemptNumber, expectedCallsMade, totalCallsMade,
                 attemptNumber, joinVars, endVars, metrics, getBlockNumberCalls>>

\* the caller keeps what its call ended with and calls again, with the same
\* arguments, on the same provider; nothing of the finished call remains but
\* what the provider itself holds
Reinvoke ==
  /\ pc \in {"returned", "raised"}
  /\ previous = <<>>
  /\ previous' = <<[returned |-> returned, raised |-> raised]>>
  /\ pc' = "idle"
  /\ attemptNumber' = 1 /\ promises' = <<>>
  /\ successfulQuoteStates' = <<>> /\ failedQuoteStates' = <<>> /\ retryAll' = FALSE
  /\ retryResult' = <<>> /\ returned' = <<>> /\ raised' = <<>>
  /\ metrics' = [n \in MetricNames |-> <<>>]
  /\ getBlockNumberCalls' = 0
  /\ UNCHANGED <<ctorVars, method, amounts, routes, functionName, callerBlockNumber, paramVars,
                 inputs, quoteStates, flagVars, finalAttemptNumber, expectedCallsMade,
                 totalCallsMade>>

\* one provider with a deterministic aggregator, called twice with the same arguments
InitDeterministic ==
  /\ retryOptions \in [retries : 0..MaxRetries]
  /\ batchParams \in [multicallChunk : MulticallChunks,
                      gasLimitPerCall : {DefaultGasLimitPerCall},
                      quoteMinSuccessRate : QuoteMinSuccessRates]
  /\ successRateFailureOverrides \in [gasLimitOverride : {DefaultGasLimitOverride},
                                      multicallChunk : OverrideMulticallChunks]
  /\ rollback \in BOOLEAN
  /\ \E nr \in 1..MaxRoutes : routes = [r \in 1..nr |-> RouteOf(r)]
  /\ \E na \in 1..MaxAmounts : amounts = [a \in 1..na |-> AmountOf(a)]
  /\ \E call \in Calls : method = call.method /\ callerBlockNumber = call.blockNumber
  /\ functionName = QuoterFunction[method]
  /\ chainId = "MAINNET" /\ quoterAddressOverride = NoAddress
  /\ quoterAddress = ResolveQuoterAddress(chainId, quoterAddressOverride)
  /\ multicall2Provider \in Aggregators
  /\ pc = "idle"
  /\ NoCall

NextDeterministic ==
  \/ GetQuotesManyData
  \/ StartAttempt
  \/ \E idx \in 1..Len(promises) : MulticallSettles(idx)
  \/ JoinAttempt
  \/ ReturnQuotes
  \/ Reinvoke

SpecDeterministic == InitDeterministic /\ [][NextDeterministic]_vars

\* the multicall of batch idx throws one of the messages a provider may
\* produce: up to MaxSegments pieces, each one of the texts the engine looks
\* for, some other text, or calldata of some length
ProviderTexts ==
  { Text("header not found"), Text("timeout"), Text("out of gas"),
    Text("execution reverted"),
    [text |-> "calldata", len |-> 100], [text |-> "calldata", len |-> 600] }

ProviderMessages == UNION {[1..n -> ProviderTexts] : n \in 1..MaxSegments}

MulticallThrows(idx) ==
  /\ pc = "awaiting"
  /\ promises[idx].state = "calling"
  /\ \E message \in ProviderMessages :
       promises' = [promises EXCEPT ![idx] =
         [state |-> "settled",
          error |-> message,
          value |-> TaskRejected(promises[idx].call.functionParams, message,
                                 idx - 1, Len(quoteStates))]]
  /\ UNCHANGED <<ctorVars, argVars, pc, paramVars, inputs, quoteStates, flagVars,
                 finalAttemptNumber, expectedCallsMade, totalCallsMade,
                 attemptNumber, joinVars, endVars, metrics, getBlockNumberCalls>>

\* one call of one batch, not retried, whose multicall throws
InitThrows ==
  /\ retryOptions = [retries |-> 0]
  /\ batchParams = [multicallChunk |-> 2, gasLimitPerCall |-> DefaultGasLimitPerCall,
                    quoteMinSuccessRate |-> <<1, 5>>]
  /\ successRateFailureOverrides = [gasLimitOverride |-> DefaultGasLimitOverride,
                                    multicallChunk |-> 4]
  /\ rollback = FALSE
  /\ routes = <<RouteOf(1)>>
  /\ \E na \in 1..2 : amounts = [a \in 1..na |-> AmountOf(a)]
  /\ method = "getQuotesManyExactIn" /\ functionName = QuoterFunction[method]
  /\ callerBlockNumber = Undefined
  /\ Idle

NextThrows ==
  \/ GetQuotesManyData
  \/ StartAttempt
  \/ \E idx \in 1..Len(promises) : MulticallThrows(idx)
  \/ JoinAttempt

SpecThrows == InitThrows /\ [][NextThrows]_vars

\* the planner alone, on a wider range of input counts and chunk sizes
InitPlanner ==
  /\ retryOptions = [retries |-> DefaultRetries]
  /\ batchParams \in [multicallChunk : 1..PlanMaxChunk,
                      gasLimitPerCall : {DefaultGasLimitPerCall},
                      quoteMinSuccessRate : {<<1, 5>>}]
  /\ successRateFailureOverrides = [gasLimitOverride |-> DefaultGasLimitOverride,
                                    multicallChunk |-> DefaultOverrideMulticallChunk]
  /\ rollback = FALSE
  /\ \E nr \in 1..PlanMaxRoutes : routes = [r \in 1..nr |-> RouteOf(r)]
  /\ \E na \in 1..PlanMaxAmounts : amounts = [a \in 1..na |-> AmountOf(a)]
  /\ \E call \in Calls : method = call.method /\ callerBlockNumber = call.blockNumber
  /\ functionName = QuoterFunction[method]
  /\ Idle

NextPlanner == GetQuotesManyData

SpecPlanner == InitPlanner /\ [][NextPlanner]_vars

\* the engine as constructed with its default parameters, on a call with more
\* inputs than the out-of-gas chunk size
InitDefault ==
  /\ retryOptions = [retries |-> DefaultRetries]
  /\ batchParams = [multicallChunk |-> DefaultMulticallChunk,
                    gasLimitPerCall |-> DefaultGasLimitPerCall,
                    quoteMinSuccessRate |-> <<1, 5>>]
  /\ successRateFailureOverrides = [gasLimitOverride |-> DefaultGasLimitOverride,
                                    multicallChunk |-> DefaultOverrideMulticallChunk]
  /\ rollback = FALSE
  /\ routes = [r \in 1..BigRoutes |-> RouteOf(r)]
  /\ amounts = [a \in 1..BigAmounts |-> AmountOf(a)]
  /\ method = "getQuotesManyExactIn" /\ functionName = QuoterFunction[method]
  /\ callerBlockNumber = Undefined
  /\ Idle

SpecDefault == InitDefault /\ [][Next]_vars

\* every step that is enabled is eventually taken: the aggregator answers
\* every call and the engine's own steps are not held back
SpecFair == Spec /\ WF_vars(Next)

\* =================================================================== claims
Done == pc \in {"returned", "raised"}

BlocksOf(states) == {states[k].results.blockNumber : k \in 1..Len(states)}

\* C1: whenever the call returns successfully, all the batches whose results
\* are in the returned quotes reported the same block number, and that number
\* is the returned blockNumber.
C1_SingleBlockOnReturn ==
  pc = "returned" =>
    \A k \in 1..Len(successfulQuoteStates) :
      successfulQuoteStates[k].results.blockNumber = returned[1].blockNumber

\* C2: an attempt whose successful batches report more than one distinct
\* block number does not return; the attempt loop exits successfully only
\* from an attempt in which no batch failed and no retry-all is pending.
C2_NoReturnOnBlockConflict ==
  pc = "resolved" =>
    /\ Cardinality(BlocksOf(successfulQuoteStates)) <= 1
    /\ Len(failedQuoteStates) = 0
    /\ ~retryAll

\* the input the planner must have encoded for route i and amount j
EncodedInput(i, j) ==
  <<encodeRouteToPath(routes[i], functionName = "quoteExactOutput"), ToHex(amounts[j])>>

\* a quote record is the one built from an aggregator result for the input
BuiltFrom(q, input) ==
  \/ /\ q.quote = Null /\ q.sqrtPriceX96AfterList = Null
     /\ q.initializedTicksCrossedList = Null /\ q.gasEstimate = Null
  \/ \E blk \in BlocksOf(successfulQuoteStates) :
       /\ q.quote = QuoterResult(input, blk)[1]
       /\ q.sqrtPriceX96AfterList = QuoterResult(input, blk)[2]
       /\ q.initializedTicksCrossedList = QuoterResult(input, blk)[3]
       /\ q.gasEstimate = QuoterResult(input, blk)[4]

\* C3: a successful call returns one entry per route in route order, each
\* with one quote per amount in amount order, and the quote at [i][j] is built
\* from the aggregator result for the encoded input of route i and amount j,
\* which the planner placed at flat position (i - 1) * |amounts| + j.
C3_PositionalAlignment ==
  pc = "returned" =>
    LET rq == returned[1].routesWithQuotes
        flat == Flatten([k \in 1..Len(successfulQuoteStates) |->
                           successfulQuoteStates[k].results.results])
    IN /\ Len(rq) = Len(routes)
       /\ Len(flat) = Len(routes) * Len(amounts)
       /\ \A i \in 1..Len(rq) :
            /\ rq[i][1] = routes[i]
            /\ Len(rq[i][2]) = Len(amounts)
            /\ \A j \in 1..Len(amounts) :
                 LET pos == (i - 1) * Len(amounts) + j
                     q == rq[i][2][j]
                 IN /\ q.amount = amounts[j]
                    /\ inputs[pos] = EncodedInput(i, j)
                    /\ BuiltFrom(q, EncodedInput(i, j))
                    /\ (q.quote # Null) = flat[pos].success

\* a call of two routes and two amounts returns after a success-rate retry
\* that re-chunked its inputs
C3_Witness ==
  /\ pc = "returned" /\ Len(routes) = 2 /\ Len(amounts) = 2
  /\ finalAttemptNumber >= 2 /\ haveRetriedForSuccessRate
  /\ \E i \in 1..2, j \in 1..2 : returned[1].routesWithQuotes[i][2][j].quote = Null
  /\ \E i \in 1..2, j \in 1..2 : returned[1].routesWithQuotes[i][2][j].quote # Null

\* C4: provided every aggregator call completes, the call terminates: it
\* runs at most retries + 1 attempts and then returns or raises, and no
\* attempt is started once the budget is exhausted.
C4_Terminates ==
  /\ [](attemptNumber <= retryOptions.retries + 1)
  /\ [][Done => UNCHANGED vars]_vars
  /\ <>Done

\* a call raises after using the whole budget of two retries
C4_Witness ==
  /\ pc = "raised" /\ retryOptions.retries = MaxRetries /\ finalAttemptNumber = MaxRetries + 1

\* the aggregated error of the failed batches of an attempt
AggregatedError(failed) ==
  [name |-> "Error",
   message |-> <<[text |-> "Failed to get n quotes. Reasons: ", len |-> 32 + Digits(Len(failed)),
                  n |-> Len(failed), reasons |-> ReasonNames(failed)]>>]

\* C5: when the retry budget is exhausted the call raises a single
\* aggregated error naming the failure kinds of the batches that failed in
\* the last attempt, and returns no quotes.
C5_AggregatedErrorOnExhaustion ==
  pc = "raised" =>
    /\ raised = <<AggregatedError(failedQuoteStates)>>
    /\ returned = <<>>

\* C6: with no routes or no amounts the call returns an empty result set, it
\* does not raise, and it never invokes the aggregator.
C6_EmptyInputsReturnEmpty ==
  (Len(routes) = 0 \/ Len(amounts) = 0) =>
    /\ pc # "raised"
    /\ totalCallsMade = 0
    /\ pc = "returned" => returned[1].routesWithQuotes = <<>>

\* C7: every chunk the planner produces has at most multicallChunk inputs.
C7_ChunkAtMostMulticallChunk ==
  pc = "attempt" =>
    \A k \in 1..Len(quoteStates) : Len(quoteStates[k].inputs) <= multicallChunk

\* the inputs are split in several chunks, one of them as large as allowed
C7_Witness ==
  /\ pc = "attempt" /\ Len(quoteStates) >= 3
  /\ \E k \in 1..Len(quoteStates) : Len(quoteStates[k].inputs) = multicallChunk
  /\ Len(inputs) % multicallChunk # 0

ChunkSizes == {Len(quoteStates[k].inputs) : k \in 1..Len(quoteStates)}

\* C8 as stated: the sizes of the chunks the planner produces differ by at
\* most one.
C8_Original ==
  pc = "attempt" => \A a \in ChunkSizes, b \in ChunkSizes : a - b <= 1

\* C8 as amended: the chunks other than the last all have the normalized size
\* ceil(N / ceil(N / multicallChunk)), and the last chunk has between one and
\* that many inputs.
C8_AllButLastEqual ==
  pc = "attempt" /\ Len(quoteStates) > 0 =>
    LET n == Len(quoteStates)
        size == Ceil(Len(inputs), Ceil(Len(inputs), multicallChunk))
    IN /\ \A k \in 1..(n - 1) : Len(quoteStates[k].inputs) = size
       /\ Len(quoteStates[n].inputs) >= 1
       /\ Len(quoteStates[n].inputs) <= size

\* seven inputs under a chunk size of three are planned as 3, 3, 1
C8_Witness ==
  /\ pc = "attempt" /\ Len(inputs) = 7 /\ multicallChunk = 3
  /\ [k \in 1..Len(quoteStates) |-> Len(quoteStates[k].inputs)] = <<3, 3, 1>>

\* C9: every invocation of the aggregator carries at most the then-current
\* multicallChunk inputs, also after the retry controller lowered it.
C9_CallAtMostCurrentChunk ==
  \A idx \in 1..Len(promises) :
    promises[idx].state = "calling" =>
      Len(promises[idx].call.functionParams) <= multicallChunk

SettledAs(p, status) == p.state = "settled" /\ p.value.status = status

FailedForSuccessRate(p) ==
  SettledAs(p, "failed") /\ p.value.reason.name = "SuccessRateError"

C11_OverridesOnSuccessRateRetry ==
  [][(/\ pc = "awaiting" /\ pc' = "attempt"
      /\ ~haveRetriedForSuccessRate
      /\ \E idx \in 1..Len(promises) : FailedForSuccessRate(promises[idx]))
     => /\ gasLimitOverride' = successRateFailureOverrides.gasLimitOverride
        /\ multicallChunk' = successRateFailureOverrides.multicallChunk
        /\ quoteStates' = PlanQuoteStates(inputs, successRateFailureOverrides.multicallChunk)
    ]_vars

\* a settled task whose batch failed with the named error
FailedWith(p, name) ==
  /\ p.state = "settled"
  /\ p.value.status = "failed"
  /\ p.value.reason.name = name

\* C12: the pinned block changes only in the join of an attempt that saw a
\* ProviderBlockHeaderError, with rollback enabled, no rollback before and a
\* block header error recorded in an earlier attempt; the new block is the old
\* one minus 1, every batch is reset to pending, and once rolled back the call
\* never rolls back again.
C12_RollbackOnlyOnSecondBlockHeader ==
  [][pc # "idle" =>
       /\ providerConfig'.blockNumber # providerConfig.blockNumber =>
            /\ pc = "awaiting"
            /\ rollback
            /\ ~blockHeaderRolledBack /\ blockHeaderRolledBack'
            /\ blockHeaderRetryAttemptNumber # Undefined
            /\ blockHeaderRetryAttemptNumber < attemptNumber
            /\ \E idx \in 1..Len(promises) :
                 FailedWith(promises[idx], "ProviderBlockHeaderError")
            /\ providerConfig'.blockNumber = providerConfig.blockNumber - 1
            /\ quoteStates' = PlanQuoteStates(inputs, multicallChunk')
       /\ blockHeaderRolledBack => blockHeaderRolledBack'
    ]_vars

\* C13: the provider's current block is queried at most once per call, and
\* never when the caller pinned a block, whatever the pinned value.
C13_CurrentBlockQueriedOnlyWhenUnpinned ==
  /\ getBlockNumberCalls <= 1
  /\ callerBlockNumber # Undefined => getBlockNumberCalls = 0

\* a multicall of the current attempt has not returned yet
InFlight == \E idx \in 1..Len(promises) : promises[idx].state = "calling"

\* C14: while a multicall of the attempt is in flight the attempt is not
\* joined: the validator and the retry controller change nothing (batch
\* states, flags, parameters, pinned block, metrics, attempt number), and no
\* task of a following attempt is started; tasks are started only when no
\* task of an earlier attempt exists.
C14_JoinBeforeNextAttempt ==
  [][/\ InFlight =>
          /\ pc' = "awaiting"
          /\ UNCHANGED <<quoteStates, flagVars, paramVars, joinVars, metrics,
                         attemptNumber, finalAttemptNumber, totalCallsMade>>
          /\ \A idx \in 1..Len(promises) :
               promises[idx].state = "settled" => promises'[idx] = promises[idx]
     /\ (pc = "attempt" /\ pc' = "awaiting") => promises = <<>>
    ]_vars

\* an attempt after the first is about to start its tasks, more than one batch
C14_Witness ==
  /\ pc = "attempt" /\ attemptNumber >= 2
  /\ Len(quoteStates) >= 2
  /\ promises = <<>>

\* the metric of each retry kind
RetryMetricNames ==
  { "QuoteBlockConflictErrorRetry", "QuoteBlockHeaderNotFoundRetry", "QuoteTimeoutRetry",
    "QuoteOutOfGasExceptionRetry", "QuoteSuccessRateRetry", "QuoteUnknownReasonRetry" }

\* C17: every retry metric has been emitted at most once in the call.
C17_RetryMetricAtMostOnce ==
  \A name \in RetryMetricNames : Len(metrics[name]) <= 1

\* the call ended after two attempts in which both batches timed out twice:
\* four timeout failures, one QuoteTimeoutRetry
C17_Witness ==
  /\ pc = "raised" /\ attemptNumber >= 2
  /\ Len(failedQuoteStates) >= 2
  /\ \A k \in 1..Len(failedQuoteStates) :
       failedQuoteStates[k].reason.name = "ProviderTimeoutError"
  /\ Len(metrics["QuoteTimeoutRetry"]) = 1
  /\ \A name \in RetryMetricNames \ {"QuoteTimeoutRetry"} : Len(metrics[name]) = 0

\* the raw aggregator result the returned call holds for route i and amount j
RawResult(i, j) == retryResult[1].results[(i - 1) * Len(amounts) + j]

\* C18: in a returned call, the quote of route i and amount j keeps the
\* amount; when the raw result has success = false its quote,
\* sqrtPriceX96AfterList, initializedTicksCrossedList and gasEstimate are all
\* absent, and when it has success = true they are the four components of the
\* raw tuple, in that order.
C18_PerInputFailureAbsorbed ==
  pc = "returned" =>
    \A i \in 1..Len(routes) : \A j \in 1..Len(amounts) :
      LET q == returned[1].routesWithQuotes[i][2][j]
          raw == RawResult(i, j)
      IN /\ q.amount = amounts[j]
         /\ IF ~raw.success
            THEN /\ q.quote = Null /\ q.sqrtPriceX96AfterList = Null
                 /\ q.initializedTicksCrossedList = Null /\ q.gasEstimate = Null
            ELSE /\ q.quote = raw.result[1] /\ q.quote # Null
                 /\ q.sqrtPriceX96AfterList = raw.result[2] /\ q.sqrtPriceX96AfterList # Null
                 /\ q.initializedTicksCrossedList = raw.result[3]
                 /\ q.initializedTicksCrossedList # Null
                 /\ q.gasEstimate = raw.result[4] /\ q.gasEstimate # Null

\* a call returned in its first attempt with one failed and one successful
\* quote for the same route
C18_Witness ==
  /\ pc = "returned" /\ finalAttemptNumber = 1
  /\ Len(routes) >= 1 /\ Len(amounts) = 2
  /\ ~RawResult(1, 1).success /\ RawResult(1, 2).success
  /\ returned[1].routesWithQuotes[1][2][1].quote = Null
  /\ returned[1].routesWithQuotes[1][2][2].quote # Null

\* the inputs of the batches of a state vector, concatenated in vector order
InputsOf(states) == Flatten([k \in 1..Len(states) |-> states[k].inputs])

\* C20: once the call is planned, the inputs of the batches of quoteStates,
\* concatenated in order, are the flat input sequence of the planner; the
\* same holds of the states the tasks of the running attempt have returned.
C20_BatchesPartitionInputs ==
  pc # "idle" =>
    /\ InputsOf(quoteStates) = inputs
    /\ pc = "awaiting" => InputsOf(Awaited(promises, quoteStates)) = inputs

\* a partial retry: in a second or later attempt, over more than one batch,
\* one batch is kept as a success and another is retried after a failure
C20_Witness ==
  /\ pc = "attempt" /\ attemptNumber >= 2
  /\ Len(quoteStates) >= 2
  /\ \E k \in 1..Len(quoteStates) : quoteStates[k].status = "success"
  /\ \E k \in 1..Len(quoteStates) : quoteStates[k].status = "failed"

\* C19: a provider constructed for a chain without a registered quoter
\* address and without an override has thrown from its constructor, or is
\* about to: it never plans, never starts an attempt and never calls the
\* aggregator; and when an override was given, every multicall in flight is
\* addressed to the override, whatever the registry holds for the chain.
C19_QuoterAddressResolution ==
  /\ (chainToQuoterAddress[chainId] = NoAddress /\ quoterAddressOverride = NoAddress) =>
       /\ pc \in {"new", "thrown"}
       /\ pc = "thrown" => Len(raised) = 1
       /\ totalCallsMade = 0 /\ promises = <<>> /\ attemptNumber = 1
  /\ pc = "thrown" =>
       (chainToQuoterAddress[chainId] = NoAddress /\ quoterAddressOverride = NoAddress)
  /\ quoterAddressOverride # NoAddress =>
       \A idx \in 1..Len(promises) :
         promises[idx].state = "calling" => promises[idx].call.address = quoterAddressOverride

\* a provider for mainnet, which has a registered address, constructed with
\* an override: two multicalls in flight, addressed to the override
C19_Witness ==
  /\ chainId = "MAINNET" /\ quoterAddressOverride = "0xOverride"
  /\ pc = "awaiting" /\ Len(promises) = 2
  /\ \A idx \in 1..2 : /\ promises[idx].state = "calling"
                       /\ promises[idx].call.address = "0xOverride"

\* C16: on a provider whose aggregator is deterministic, a second call with
\* the same routes, amounts, direction, configuration and pinned block ends as
\* the first one did: the same quotes and block number when it returns, the
\* same error when it raises, in whatever order the batches of either call
\* completed.
C16_SameOutcomeWhenCalledAgain ==
  (previous # <<>> /\ pc \in {"returned", "raised"}) =>
    /\ returned = previous[1].returned
    /\ raised = previous[1].raised

\* both calls returned, each after a retry, with two batches in parallel
C16_Witness ==
  /\ previous # <<>> /\ pc = "returned"
  /\ previous[1].returned # <<>>
  /\ finalAttemptNumber >= 2
  /\ Len(quoteStates) >= 2

\* C21: the task of a batch that is a success when the attempt starts issues
\* no multicall and returns the batch as it is; the tasks of all other
\* batches issue one. Through the join the batch keeps its state (inputs,
\* block number, results), unless the join resets every batch to pending.
C21_SuccessBatchesSkipped ==
  [][/\ (pc = "attempt" /\ pc' = "awaiting") =>
          \A idx \in 1..Len(quoteStates) :
            IF quoteStates[idx].status = "success"
            THEN promises'[idx] = [state |-> "settled", value |-> quoteStates[idx]]
            ELSE promises'[idx].state = "calling"
     /\ pc = "awaiting" =>
          \A idx \in 1..Len(quoteStates) :
            quoteStates[idx].status = "success" =>
              /\ promises[idx] = [state |-> "settled", value |-> quoteStates[idx]]
              /\ \/ (Len(quoteStates') >= idx /\ quoteStates'[idx] = quoteStates[idx])
                 \/ quoteStates' = PlanQuoteStates(inputs, multicallChunk')
    ]_vars

\* a second or later attempt is running: one batch was kept as a success and
\* issues no multicall, another one is being called again
C21_Witness ==
  /\ pc = "awaiting" /\ attemptNumber >= 2
  /\ \E idx \in 1..Len(quoteStates) :
       /\ quoteStates[idx].status = "success"
       /\ promises[idx].state = "settled"
  /\ \E idx \in 1..Len(quoteStates) :
       /\ quoteStates[idx].status = "failed"
       /\ promises[idx].state = "calling"

\* the names of the errors the batches of the attempt have failed with
FailureNames ==
  {promises[idx].value.reason.name :
     idx \in {k \in 1..Len(promises) : SettledAs(promises[k], "failed")}}

\* the validator finds the successful batches of the attempt on different blocks
BlockConflictDetected ==
  Len(validateBlockNumbers(partitionQuotes(Awaited(promises, quoteStates))[1],
                           expectedCallsMade, gasLimitOverride)) > 0

\* the step that joins the attempt
Joins == pc = "awaiting" /\ pc' # "awaiting"

\* the join leaves the batches as the tasks returned them: successes kept,
\* failed batches failed with the inputs they had, no re-chunking
OnlyFailedLeftToRetry ==
  /\ quoteStates' = Awaited(promises, quoteStates)
  /\ \A idx \in 1..Len(quoteStates) :
       /\ quoteStates'[idx].inputs = quoteStates[idx].inputs
       /\ quoteStates[idx].status = "success" => quoteStates'[idx] = quoteStates[idx]

\* C22: the join of an attempt whose failures are all ProviderGasError, with
\* no block conflict among its successes, sets gasLimitOverride to 1,000,000
\* and multicallChunk to 140, keeps the pinned block, and leaves the batches as
\* they are: the successes are kept and the failed batches, with their inputs,
\* are the ones the next attempt calls.
C22_OutOfGasPartialRetry ==
  [][(Joins /\ FailureNames = {"ProviderGasError"} /\ ~BlockConflictDetected) =>
       /\ gasLimitOverride' = 1000000
       /\ multicallChunk' = 140
       /\ UNCHANGED providerConfig
       /\ OnlyFailedLeftToRetry
    ]_vars

\* the first attempt had one batch succeed and one run out of gas: the second
\* attempt is about to start, the batches as the first attempt left them
C22_Witness ==
  /\ pc = "attempt" /\ attemptNumber = 2
  /\ haveRetriedForOutOfGas /\ ~haveRetriedForSuccessRate
  /\ gasLimitOverride = 1000000 /\ multicallChunk = 140
  /\ Len(quoteStates) = 2
  /\ \E idx \in 1..2 : quoteStates[idx].status = "success"
  /\ \E idx \in 1..2 : /\ quoteStates[idx].status = "failed"
                       /\ quoteStates[idx].reason.name = "ProviderGasError"

\* C23: the join of an attempt whose failures are all ProviderGasError leaves
\* gasLimitOverride and multicallChunk each at or below the value it had
\* before the join.
C23_OutOfGasOnlyLowers ==
  [][(Joins /\ FailureNames = {"ProviderGasError"}) =>
       /\ gasLimitOverride' <= gasLimitOverride
       /\ multicallChunk' <= multicallChunk
    ]_vars

\* C24: the join of an attempt whose failures are all ProviderTimeoutError
\* or unclassified errors, with no block conflict among its successes, keeps
\* gasLimitOverride, multicallChunk and the pinned block, and leaves the
\* batches as they are: the successes are kept, the failed batches keep their
\* inputs and are the ones the next attempt calls.
C24_TimeoutUnknownFrame ==
  [][(/\ Joins
      /\ FailureNames # {} /\ FailureNames \subseteq {"ProviderTimeoutError", "Error"}
      /\ ~BlockConflictDetected) =>
       /\ UNCHANGED <<gasLimitOverride, multicallChunk, providerConfig>>
       /\ OnlyFailedLeftToRetry
    ]_vars

\* the first attempt had one batch succeed and one fail with an unclassified
\* error: the second attempt is about to start with the parameters of the first
C24_Witness ==
  /\ pc = "attempt" /\ attemptNumber = 2
  /\ haveRetriedForUnknownReason
  /\ gasLimitOverride = batchParams.gasLimitPerCall
  /\ multicallChunk = batchParams.multicallChunk
  /\ Len(quoteStates) = 2
  /\ \E idx \in 1..2 : quoteStates[idx].status = "success"
  /\ \E idx \in 1..2 : /\ quoteStates[idx].status = "failed"
                       /\ quoteStates[idx].reason.name = "Error"

\* the block the call was pinned to at its start
PinnedAtStart == IF callerBlockNumber # Undefined THEN callerBlockNumber ELSE ChainHead

\* C25: with rollback disabled the pinned block never changes after the start
\* of the call, every multicall in flight carries the block pinned at the
\* start, and the join of an attempt whose failures are all
\* ProviderBlockHeaderError, with no block conflict among its successes,
\* changes no parameter and leaves the batches as they are, the failed ones
\* to be retried.
C25_NoRollbackKeepsBlock ==
  [][(~rollback /\ pc # "idle") =>
       /\ providerConfig.blockNumber = PinnedAtStart
       /\ providerConfig'.blockNumber = PinnedAtStart
       /\ \A idx \in 1..Len(promises) :
            promises[idx].state = "calling" =>
              promises[idx].call.providerConfig.blockNumber = PinnedAtStart
       /\ (Joins /\ FailureNames = {"ProviderBlockHeaderError"} /\ ~BlockConflictDetected) =>
            /\ UNCHANGED <<gasLimitOverride, multicallChunk>>
            /\ OnlyFailedLeftToRetry
    ]_vars

\* rollback disabled: a third attempt, after two attempts that saw a block
\* header error, has a multicall in flight at the block pinned at the start
C25_Witness ==
  /\ ~rollback
  /\ pc = "awaiting" /\ attemptNumber = 3
  /\ blockHeaderRetryAttemptNumber = 2
  /\ \E idx \in 1..Len(promises) :
       /\ promises[idx].state = "calling"
       /\ quoteStates[idx].status = "failed"
       /\ quoteStates[idx].reason.name = "ProviderBlockHeaderError"
       /\ promises[idx].call.providerConfig.blockNumber = PinnedAtStart

\* the tasks that have returned after their multicall threw a provider message
Thrown == {idx \in 1..Len(promises) :
             promises[idx].state = "settled" /\ "error" \in DOMAIN promises[idx]}

\* C26: a multicall that threw yields a failed batch whose reason is a
\* ProviderBlockHeaderError exactly when the message contains 'header not
\* found'; a ProviderTimeoutError exactly when it does not and contains
\* 'timeout'; a ProviderGasError exactly when it contains neither and contains
\* 'out of gas'; and a plain Error exactly when it contains none of the three.
C26_ClassificationOrder ==
  \A idx \in Thrown :
    LET message == promises[idx].error
        name == promises[idx].value.reason.name
        header == Includes(message, "header not found")
        timeout == Includes(message, "timeout")
        gas == Includes(message, "out of gas")
    IN /\ promises[idx].value.status = "failed"
       /\ name \in {"ProviderBlockHeaderError", "ProviderTimeoutError", "ProviderGasError", "Error"}
       /\ (name = "ProviderBlockHeaderError") = header
       /\ (name = "ProviderTimeoutError") = (~header /\ timeout)
       /\ (name = "ProviderGasError") = (~header /\ ~timeout /\ gas)
       /\ (name = "Error") = (~header /\ ~timeout /\ ~gas)

\* a message that says 'out of gas', then 'timeout', then 'header not found'
\* has been classified as a ProviderBlockHeaderError
C26_Witness ==
  \E idx \in Thrown :
    /\ promises[idx].error = <<Text("out of gas"), Text("timeout"), Text("header not found")>>
    /\ promises[idx].value.reason.name = "ProviderBlockHeaderError"

\* the message attached to a failed batch has at most 500 characters
C27_Original ==
  \A idx \in Thrown : MsgLen(promises[idx].value.reason.message) <= 500

\* C27: the message attached to a failed batch carries the first 500
\* characters of the provider's message and no more of it. For a
\* ProviderBlockHeaderError and a ProviderGasError that is the whole attached
\* message; for a ProviderTimeoutError it follows the text
\* 'Req idx/total. Request had n inputs. ' and for a plain Error the 29
\* characters of 'Unknown error from provider: '.
C27_ProviderMessageTruncated ==
  \A idx \in Thrown :
    LET message == promises[idx].error
        reason == promises[idx].value.reason
        prefixed == reason.name \in {"ProviderTimeoutError", "Error"}
        kept == IF prefixed THEN Tail(reason.message) ELSE reason.message
    IN /\ MsgLen(kept) = Min(MsgLen(message), 500)
       /\ \A k \in 1..Len(kept) : kept[k].text = message[k].text /\ kept[k].len <= message[k].len
       /\ reason.name = "Error" =>
            /\ reason.message[1] = Text("Unknown error from provider: ")
            /\ MsgLen(reason.message) <= 529
       /\ reason.name = "ProviderTimeoutError" =>
            /\ reason.message[1].idx = idx - 1
            /\ reason.message[1].total = Len(quoteStates)
            /\ reason.message[1].n = Len(quoteStates[idx].inputs)
            /\ MsgLen(reason.message) <= 500 + reason.message[1].len

\* a provider message of more than 500 characters that contains 'timeout' is
\* attached with its prefix: more than 500 characters in all
C27_Witness ==
  \E idx \in Thrown :
    /\ MsgLen(promises[idx].error) > 500
    /\ promises[idx].value.reason.name = "ProviderTimeoutError"
    /\ MsgLen(promises[idx].value.reason.message) > 500

\* the step that starts the tasks of an attempt
StartsTasks == pc = "attempt" /\ pc' = "awaiting"

\* every task of every attempt adds one to totalCallsMade, the tasks of
\* batches that are already a success included
C28_Original ==
  [][StartsTasks => totalCallsMade' = totalCallsMade + Len(quoteStates)]_vars

\* C28: totalCallsMade grows by one for every task that calls the aggregator,
\* that is for every batch that is not a success when the attempt starts; a
\* task that skips a success batch adds nothing, and nothing else changes the
\* counter during the call. QuoteTotalCallsToProvider reports the counter
\* when the call returns.
C28_CountsIssuedCalls ==
  [][/\ StartsTasks =>
          /\ totalCallsMade' = totalCallsMade
               + Cardinality({idx \in 1..Len(quoteStates) : quoteStates[idx].status # "success"})
          /\ totalCallsMade' = totalCallsMade
               + Cardinality({idx \in 1..Len(promises') : promises'[idx].state = "calling"})
     /\ (pc \notin {"idle", "attempt"}) => UNCHANGED totalCallsMade
     /\ pc' = "returned" => metrics'["QuoteTotalCallsToProvider"] = <<totalCallsMade>>
    ]_vars

\* a call of two batches returned after its second attempt retried one of
\* them: three calls reported
C28_Witness ==
  /\ pc = "returned" /\ finalAttemptNumber = 2
  /\ Len(quoteStates) = 2 /\ expectedCallsMade = 2
  /\ ~haveRetriedForSuccessRate
  /\ metrics["QuoteTotalCallsToProvider"] = <<3>>

\* C29: getQuotesManyExactIn always calls the quoter's quoteExactInput with the
\* routes encoded forward, getQuotesManyExactOut always calls quoteExactOutput
\* with the routes encoded reversed; every multicall of every attempt uses that
\* one function, and all the inputs of a route, one per amount, carry the one
\* encoded path of that route.
C29_EntryPointAndPath ==
  pc \notin {"new", "idle"} =>
    LET exactOut == method = "getQuotesManyExactOut"
        entryPoint == IF exactOut THEN "quoteExactOutput" ELSE "quoteExactInput"
        path(i) == IF exactOut THEN Reverse(routes[i]) ELSE routes[i]
    IN /\ method \in {"getQuotesManyExactIn", "getQuotesManyExactOut"}
       /\ Len(inputs) = Len(routes) * Len(amounts)
       /\ \A i \in 1..Len(routes) : \A j \in 1..Len(amounts) :
            inputs[(i - 1) * Len(amounts) + j][1] = path(i)
       /\ \A idx \in 1..Len(quoteStates) : \A k \in 1..Len(quoteStates[idx].inputs) :
            quoteStates[idx].inputs[k][1] \in {path(i) : i \in 1..Len(routes)}
       /\ \A idx \in 1..Len(promises) :
            promises[idx].state = "calling" =>
              /\ promises[idx].call.functionName = entryPoint
              /\ \A k \in 1..Len(promises[idx].call.functionParams) :
                   promises[idx].call.functionParams[k][1]
                     \in {path(i) : i \in 1..Len(routes)}

\* getQuotesManyExactOut for two routes and two amounts, in its second attempt:
\* a multicall of quoteExactOutput in flight whose inputs carry a reversed path
C29_Witness ==
  /\ method = "getQuotesManyExactOut" /\ pc = "awaiting" /\ attemptNumber = 2
  /\ Len(routes) = 2 /\ Len(amounts) = 2
  /\ \E idx \in 1..Len(promises) :
       /\ promises[idx].state = "calling"
       /\ promises[idx].call.functionName = "quoteExactOutput"
       /\ Len(promises[idx].call.functionParams) = 2
       /\ promises[idx].call.functionParams[1][1] = <<4, 3>>
       /\ promises[idx].call.functionParams[2][1] = <<4, 3>>

\* C30: when Promise.all has joined the tasks of an attempt, every batch state
\* it hands back is a success or a failure, none is pending, so the attempt
\* never throws 'Pending quote after waiting for all promises.' and the call
\* never ends with that error.
C30_NoPendingAfterJoin ==
  [][/\ (pc = "awaiting" /\ pc' # "awaiting") =>
          /\ \A idx \in 1..Len(promises) :
               /\ promises[idx].state = "settled"
               /\ promises[idx].value.status \in {"success", "failed"}
          /\ Len(promises) = Len(quoteStates)
          /\ Len(partitionQuotes([idx \in 1..Len(promises) |-> promises[idx].value])[3]) = 0
     /\ \A k \in 1..Len(raised') :
          raised'[k].message # <<Text("Pending quote after waiting for all promises.")>>
    ]_vars

\* a call of two batches that ended in its second attempt with one batch a
\* success and the other a failure: the error it raised is the one of the failures
C30_Witness ==
  /\ pc = "raised" /\ finalAttemptNumber = 2 /\ Len(quoteStates) = 2
  /\ quoteStates[1].status = "success" /\ quoteStates[2].status = "failed"
  /\ Len(raised) = 1 /\ raised[1].message[1].text = "Failed to get n quotes. Reasons: "

\* C31: whenever an attempt starts or is in progress, every batch that is a
\* success was answered for the block that is pinned now (the reply reports
\* the pinned block plus the drift of the aggregator); and every step that
\* changes the pinned block leaves every batch pending, so no success obtained
\* under the former block survives a rollback.
C31_SuccessesUnderPinnedBlock ==
  [][/\ pc' \in {"attempt", "awaiting"} =>
          \A idx \in 1..Len(quoteStates') :
            quoteStates'[idx].status = "success" =>
              quoteStates'[idx].results.blockNumber - providerConfig'.blockNumber
                \in 0..MaxDrift
     /\ providerConfig'.blockNumber # providerConfig.blockNumber =>
          \A idx \in 1..Len(quoteStates') : quoteStates'[idx].status = "pending"
    ]_vars

\* the third attempt of a call of two batches is about to start after the
\* second attempt rolled the pinned block back: both batches are pending
C31_Witness ==
  /\ pc = "attempt" /\ attemptNumber = 3
  /\ blockHeaderRolledBack /\ ~haveRetriedForSuccessRate
  /\ callerBlockNumber = ChainHead /\ providerConfig.blockNumber = ChainHead - 1
  /\ Len(quoteStates) = 2
  /\ quoteStates[1].status = "pending" /\ quoteStates[2].status = "pending"

\* C32: the pinned block, the gas limit per call and the flag of the
\* success-rate retry change only at the entry of the call and in the join of
\* an attempt, never while the tasks of an attempt are being started or are
\* returning; every multicall in flight carries the pinned block and the gas
\* limit of the attempt, and a task that returns leaves the tasks of its
\* sibling batches as they were.
C32_ParametersFixedWithinAttempt ==
  [][/\ (pc # "idle" /\ ~Joins) =>
          UNCHANGED <<providerConfig, gasLimitOverride, haveRetriedForSuccessRate>>
     /\ pc' = "awaiting" =>
          \A idx \in 1..Len(promises') :
            promises'[idx].state = "calling" =>
              /\ promises'[idx].call.providerConfig = providerConfig'
              /\ promises'[idx].call.gasLimitPerCallOverride = gasLimitOverride'
     /\ (pc = "awaiting" /\ pc' = "awaiting") =>
          \E idx \in 1..Len(promises) :
            /\ promises[idx].state = "calling" /\ promises'[idx].state = "settled"
            /\ \A other \in 1..Len(promises) \ {idx} : promises'[other] = promises[other]
    ]_vars

\* the first task of an attempt has returned a batch failed for its success
\* rate while the multicall of the second batch is still in flight, and the
\* flag of the success-rate retry is still unset
C32_Witness ==
  /\ pc = "awaiting" /\ Len(promises) = 2
  /\ promises[1].state = "settled" /\ promises[1].value.status = "failed"
  /\ promises[1].value.reason.name = "SuccessRateError"
  /\ promises[2].state = "calling"
  /\ promises[2].call.gasLimitPerCallOverride = gasLimitOverride
  /\ ~haveRetriedForSuccessRate

\* C33: an attempt resolves only when every batch its join handed back is a
\* success, and what it resolves with is the results of those batches in
\* batch order, one per input; the quotes the call returns are read from that
\* sequence only. The results kept on a batch failed for its success rate are
\* therefore never returned.
C33_ReturnedFromSuccessesOnly ==
  [][/\ (Joins /\ pc' = "resolved") =>
          /\ \A idx \in 1..Len(promises) :
               /\ promises[idx].state = "settled"
               /\ promises[idx].value.status = "success"
          /\ retryResult'[1].results =
               Flatten([idx \in 1..Len(promises) |-> promises[idx].value.results.results])
          /\ Len(retryResult'[1].results) = Len(inputs)
     /\ (pc = "resolved" /\ pc' = "returned") =>
          /\ retryResult' = retryResult
          /\ \A i \in 1..Len(routes) : \A j \in 1..Len(amounts) :
               LET raw == retryResult[1].results[(i - 1) * Len(amounts) + j]
               IN returned'[1].routesWithQuotes[i][2][j].quote
                    = IF raw.success THEN raw.result[1] ELSE Null
     /\ pc' = "raised" => returned' = <<>>
    ]_vars

\* a call of four inputs returned in its second attempt, after the first was
\* retried for the success rate of a batch: every quote it returns succeeded
C33_Witness ==
  /\ pc = "returned" /\ finalAttemptNumber = 2 /\ haveRetriedForSuccessRate
  /\ Len(inputs) = 4 /\ Len(retryResult[1].results) = 4
  /\ \A k \in 1..4 : retryResult[1].results[k].success
  /\ \A i \in 1..2 : \A j \in 1..2 : returned[1].routesWithQuotes[i][2][j].quote # Null

====
